---------------------------- MODULE Spec2Model ----------------------------
(***************************************************************************)
(* A model of the simple-web-gallery server.  The repository holds seven   *)
(* near-duplicate variants of one Express application:                     *)
(*                                                                         *)
(*   "app_1"     src/app.js               lines   1-329                    *)
(*   "app_2"     src/app.js               lines 331-697                    *)
(*   "part0"     src/unnamed/part_000                                      *)
(*   "part1"     src/unnamed/part_001                                      *)
(*   "part2_1"   src/unnamed/part_002     lines   1-324                    *)
(*   "part2_2"   src/unnamed/part_002     lines 326-733                    *)
(*   "part2_3"   src/unnamed/part_002     lines 735-1082                   *)
(*                                                                         *)
(* The variable `variant` says which of them is running.  Strings that the *)
(* code inspects character by character (file names, urls) are sequences   *)
(* of one-character strings.                                               *)
(***************************************************************************)
EXTENDS Integers, Sequences, FiniteSets, TLC

VARIABLES
    variant,      \* which application is running
    env,          \* process.env: ALLOWED_IP / UPLOAD_ALLOWED_IP, UPLOAD_LIMIT_MB
    local,        \* the local media directory, in readdir order
    sftp,         \* the SFTP directory SFTP_DIR, in list order
    nextcloud,    \* the Nextcloud directory, in listing order
    pending,      \* the fs.mkdir / fs.rmdir calls whose callback has not run
    op            \* the operation that ran last: its inputs and its outcome

vars == <<variant, env, local, sftp, nextcloud, pending, op>>

\* A directory is a sequence of entries
\*   [name, kind ("file" or "dir"), mtime, size, tag]
\* where tag names the content: byte i of a file is <<tag, i>>, and the tag
\* of a folder stands for everything below it.

Variants == {"app_1", "app_2", "part0", "part1", "part2_1", "part2_2", "part2_3"}

-----------------------------------------------------------------------------
(* Bounds of the model.                                                    *)

MaxList == 2        \* entries of one backend directory
MaxEntries == 3     \* entries of all backend directories together

-----------------------------------------------------------------------------
(* Strings.                                                                *)

UpperCase == <<"A","B","C","D","E","F","G","H","I","J","K","L","M",
               "N","O","P","Q","R","S","T","U","V","W","X","Y","Z">>
LowerCase == <<"a","b","c","d","e","f","g","h","i","j","k","l","m",
               "n","o","p","q","r","s","t","u","v","w","x","y","z">>

\* String.prototype.toLowerCase, one character.
lowerChar(c) ==
    IF \E i \in 1..26 : UpperCase[i] = c
    THEN LowerCase[CHOOSE i \in 1..26 : UpperCase[i] = c]
    ELSE c

\* String.prototype.toLowerCase.
toLowerCase(s) == [i \in 1..Len(s) |-> lowerChar(s[i])]

\* The largest element of a non-empty set of integers.
Max(S) == CHOOSE x \in S : \A y \in S : y <= x

\* path.extname (posix).  end: one past the last character that is not a
\* trailing slash; startPart: the first character of the last path
\* component; startDot: the last dot of that component.  The extension is
\* empty when there is no dot, when the dot is the component's first
\* character, or when the component is exactly "..".
extname(p) ==
    LET nonSlash  == {i \in 1..Len(p) : p[i] # "/"}
        end       == IF nonSlash = {} THEN 0 ELSE Max(nonSlash)
        slashes   == {i \in 1..end : p[i] = "/"}
        startPart == IF slashes = {} THEN 1 ELSE Max(slashes) + 1
        dots      == {i \in startPart..end : p[i] = "."}
        startDot  == IF dots = {} THEN 0 ELSE Max(dots)
        \* the state left by the left-most character of the component
        preDotState == IF startDot = 0 \/ startDot = startPart THEN 0
                       ELSE IF p[startPart] = "." THEN 1 ELSE -1
    IN  IF \/ startDot = 0
           \/ end = 0
           \/ preDotState = 0
           \/ (preDotState = 1 /\ startDot = end /\ startDot = startPart + 1)
        THEN <<>>
        ELSE SubSeq(p, startDot, end)

\* The characters encodeURIComponent escapes, among those of the model, with
\* the two hexadecimal digits of each.
Escaped == {" ", "%", "/"}
hexOf(c) == CASE c = " " -> <<"2","0">>
              [] c = "%" -> <<"2","5">>
              [] c = "/" -> <<"2","F">>

\* A mis-encoding: a space becomes "+", a percent sign is left as it is.
RECURSIVE encodeURIComponentForm(_)
encodeURIComponentForm(s) ==
    IF s = <<>> THEN <<>>
    ELSE (IF Head(s) = " " THEN <<"+">> ELSE <<Head(s)>>)
         \o encodeURIComponentForm(Tail(s))

\* encodeURIComponent: every character outside the unreserved set becomes
\* "%" and two hexadecimal digits.
RECURSIVE encodeURIComponent(_)
encodeURIComponent(s) ==
    IF s = <<>> THEN <<>>
    ELSE (IF Head(s) \in Escaped THEN <<"%">> \o hexOf(Head(s)) ELSE <<Head(s)>>)
         \o encodeURIComponent(Tail(s))

\* What decodeURIComponent gives for a malformed escape (it throws URIError).
URIError == <<"URIError">>

\* decodeURIComponent: "%" and two hexadecimal digits become the character;
\* a "%" that no two digits follow is an error.
RECURSIVE decodeURIComponent(_)
decodeURIComponent(s) ==
    IF s = <<>> THEN <<>>
    ELSE IF Head(s) = "%"
         THEN IF Len(s) >= 3 /\ \E c \in Escaped : hexOf(c) = SubSeq(s, 2, 3)
              THEN LET c    == CHOOSE x \in Escaped : hexOf(x) = SubSeq(s, 2, 3)
                       rest == decodeURIComponent(SubSeq(s, 4, Len(s)))
                   IN  IF rest = URIError THEN URIError ELSE <<c>> \o rest
              ELSE URIError
         ELSE LET rest == decodeURIComponent(Tail(s))
              IN  IF rest = URIError THEN URIError ELSE <<Head(s)>> \o rest

\* Whether sequence p is a prefix of sequence s.
IsPrefix(p, s) == Len(p) <= Len(s) /\ SubSeq(s, 1, Len(p)) = p

\* s without its first n characters.
Drop(s, n) == SubSeq(s, n + 1, Len(s))

-----------------------------------------------------------------------------
(* The media catalog.                                                      *)

\* The extension allow-list of every lister.
MediaExtensions ==
    { <<".","p","n","g">>, <<".","j","p","g">>, <<".","j","p","e","g">>,
      <<".","g","i","f">>, <<".","w","e","b","p">>, <<".","m","p","4">>,
      <<".","a","v","i">>, <<".","m","o","v">> }

\* The filter that lets every entry through.
isMediaAll(name) == TRUE

\* const ext = path.extname(name).toLowerCase(); [...].includes(ext)
isMedia(name) == toLowerCase(extname(name)) \in MediaExtensions

\* The url prefixes of the three backends.
MediaPrefix     == <<"/","m","e","d","i","a","/">>
LocalPrefix     == <<"/","l","o","c","a","l","/">>
NextcloudPrefix == <<"/","n","e","x","t","c","l","o","u","d","/">>

\* The 'Unknown Date' sentinel; dates are positive integers.
UnknownDate == -1
\* An mtime that new Date() cannot parse (missing, or not a date).
InvalidTime == 0

\* The conversion that keeps whatever new Date() gave.
toUploadDateRaw(mtime) == mtime

\* let uploadDate = new Date(fileStat.mtime);
\* if (isNaN(uploadDate)) uploadDate = 'Unknown Date';
toUploadDate(mtime) == IF mtime = InvalidTime THEN UnknownDate ELSE mtime

\* One item of a lister that stats every entry: url, size, uploadDate.
mediaItem(prefix, e) ==
    [ url        |-> prefix \o encodeURIComponent(e.name),
      size       |-> e.size,
      uploadDate |-> toUploadDate(e.mtime) ]

\* The loop over one directory listing: filter, then push an item.
RECURSIVE listLoop(_, _)
listLoop(prefix, list) ==
    IF list = <<>> THEN <<>>
    ELSE (IF isMedia(Head(list).name) THEN <<mediaItem(prefix, Head(list))>> ELSE <<>>)
         \o listLoop(prefix, Tail(list))


\* The comparator of every catalog sort:
\* (a.uploadDate instanceof Date && b.uploadDate instanceof Date)
\*     ? b.uploadDate - a.uploadDate : 0
compare(a, b) ==
    IF a.uploadDate # UnknownDate /\ b.uploadDate # UnknownDate
    THEN b.uploadDate - a.uploadDate
    ELSE 0

\* s reversed.
Reverse(s) == [i \in 1..Len(s) |-> s[Len(s) + 1 - i]]

\* Array.prototype.sort is V8's TimSort; an array shorter than 64 elements
\* is one run: CountAndMakeRun finds the run that starts the array (and
\* reverses a strictly descending one), BinaryInsertionSort inserts the rest.

\* The index of the last element of the run that starts at a[1], scanning
\* from idx.
RECURSIVE runEnd(_, _, _)
runEnd(a, idx, isDescending) ==
    IF idx > Len(a) THEN idx - 1
    ELSE LET order == compare(a[idx], a[idx - 1])
         IN  IF (isDescending /\ order >= 0) \/ (~isDescending /\ order < 0)
             THEN idx - 1
             ELSE runEnd(a, idx + 1, isDescending)

\* The place of pivot among a[left .. right-1], by bisection.
RECURSIVE bisect(_, _, _, _)
bisect(a, pivot, left, right) ==
    IF left >= right THEN left
    ELSE LET mid   == left + ((right - left) \div 2)
             order == compare(pivot, a[mid])
         IN  IF order < 0 THEN bisect(a, pivot, left, mid)
                          ELSE bisect(a, pivot, mid + 1, right)

\* BinaryInsertionSort: a[1 .. start-1] is in order; insert a[start], ...
RECURSIVE binaryInsertionSort(_, _)
binaryInsertionSort(a, start) ==
    IF start > Len(a) THEN a
    ELSE LET left == bisect(a, a[start], 1, start)
             b    == SubSeq(a, 1, left - 1) \o <<a[start]>>
                     \o SubSeq(a, left, start - 1) \o SubSeq(a, start + 1, Len(a))
         IN  binaryInsertionSort(b, start + 1)

\* mediaItems.sort(compare)
sort(a) ==
    IF Len(a) < 2 THEN a
    ELSE LET isDescending == compare(a[2], a[1]) < 0
             runLength    == runEnd(a, 3, isDescending)
             run          == IF isDescending
                             THEN Reverse(SubSeq(a, 1, runLength))
                                  \o SubSeq(a, runLength + 1, Len(a))
                             ELSE a
         IN  binaryInsertionSort(run, runLength + 1)

\* Which variants list a Nextcloud directory.
hasNextcloud(v) == v \in {"app_2", "part0"}

\* The path the server answers the part0 listing request under.
DavRoot == <<"/","r","e","m","o","t","e",".","p","h","p","/","d","a","v","/",
             "f","i","l","e","s","/","u","/">>

\* The <d:response> elements of the listing that part0 requests: the
\* collection itself, when the server lists it, has no getcontentlength;
\* every file has its percent-encoded href and its length.
davResponses(dir, rootFirst) ==
    (IF rootFirst THEN <<[href |-> DavRoot, hasLength |-> FALSE, length |-> 0]>>
                  ELSE <<>>)
    \o [i \in 1..Len(dir) |->
          [href      |-> DavRoot \o encodeURIComponent(dir[i].name),
           hasLength |-> TRUE,
           length    |-> dir[i].size]]

\* The smallest element of a non-empty set of integers.
Min(S) == CHOOSE x \in S : \A y \in S : x <= y

\* The loop over the matches of fileRegex from element i on: a match runs
\* from a <d:response>, over the first <d:href> after it, lazily to the
\* first <d:getcontentlength> after that, in whichever element it stands.
RECURSIVE regexLoop(_, _)
regexLoop(els, i) ==
    LET withLength == {k \in i..Len(els) : els[k].hasLength}
    IN  IF i > Len(els) \/ withLength = {} THEN <<>>
        ELSE LET k == Min(withLength)
             IN  (IF isMedia(els[i].href)
                  THEN <<[url        |-> els[i].href,
                          size       |-> els[k].length,
                          uploadDate |-> UnknownDate]>>
                  ELSE <<>>)
                 \o regexLoop(els, k + 1)

\* Whether a listing has an entry that passes the filter, and so is stat'ed.
statsAny(list) == \E i \in 1..Len(list) : isMedia(list[i].name)

\* The inputs of one catalog build that the backends decide: which of them
\* answer, whether the Nextcloud listing starts with the collection, in
\* which listing ("none": in neither) sftp.stat / fs.statSync throws for the
\* first entry that passes the filter, and whether sftp.end() throws.  A
\* stat can only throw in a listing that was read and has such an entry;
\* sftp.end() is only called when the connection was made.
canHappen(v, f) ==
    /\ (~hasNextcloud(v) => f.ncUp)
    /\ (v # "part0" => ~f.rootFirst)
    /\ (~f.ncUp => ~f.rootFirst)
    /\ (f.statFails = "sftp" => f.sftpUp /\ statsAny(sftp))
    /\ (f.statFails = "local" =>
           /\ f.localUp /\ statsAny(local)
           /\ (v # "part0" => f.sftpUp))
    /\ (f.endFails => f.sftpUp)

\* The builds in which every call to a backend that answers returns, and
\* those in which a stat or the closing of the session throws.
BuildInputs(v) ==
    { f \in [sftpUp : BOOLEAN, localUp : BOOLEAN, ncUp : BOOLEAN, rootFirst : BOOLEAN,
             statFails : {"none"}, endFails : {FALSE}] : canHappen(v, f) }
FaultInputs(v) ==
    { f \in [sftpUp : BOOLEAN, localUp : BOOLEAN, ncUp : BOOLEAN, rootFirst : BOOLEAN,
             statFails : {"none", "sftp", "local"}, endFails : BOOLEAN] :
        /\ f.statFails # "none" \/ f.endFails
        /\ canHappen(v, f) }

\* listMedia: one try block around the SFTP listing, the local listing and
\* (app_2) the Nextcloud listing; any exception returns [].
listMedia(v, f) ==
    IF \/ ~f.sftpUp \/ ~f.localUp \/ (v = "app_2" /\ ~f.ncUp)
       \/ f.statFails # "none"
    THEN <<>>
    ELSE sort( listLoop(MediaPrefix, sftp)
               \o listLoop(LocalPrefix, local)
               \o (IF v = "app_2" THEN listLoop(NextcloudPrefix, nextcloud)
                   ELSE <<>>) )

\* listSFTPFiles, listLocalFiles, listNextcloudFiles of part0: each has its
\* own try block and returns [] on an exception.
listSFTPFiles(f) ==
    IF f.sftpUp /\ f.statFails # "sftp" THEN listLoop(MediaPrefix, sftp) ELSE <<>>
listLocalFiles(f) ==
    IF f.localUp /\ f.statFails # "local" THEN listLoop(LocalPrefix, local) ELSE <<>>
listNextcloudFiles(f) ==
    IF f.ncUp THEN regexLoop(davResponses(nextcloud, f.rootFirst), 1) ELSE <<>>

\* listAllMedia of part0.
listAllMedia(f) ==
    sort(listSFTPFiles(f) \o listLocalFiles(f) \o listNextcloudFiles(f))

\* The catalog build of variant v.
buildCatalog(v, f) == IF v = "part0" THEN listAllMedia(f) ELSE listMedia(v, f)

\* finally { if (sftp) await sftp.end(); }: an exception of sftp.end() leaves
\* the lister, whatever its try or catch block was about to return.
buildRejects(f) == f.endFails

\* The status of a request that has not been answered (yet, or ever).
NoResponse == 0

\* Which gallery handlers await the build inside a try block (the others
\* are async functions without one).
galleryCatches(v) == v \in {"part0", "part2_1"}

\* The gallery handler: the status it answers with and the catalog it
\* renders.
galleryHandler(v, f) ==
    IF ~buildRejects(f) THEN [status |-> 200, media |-> buildCatalog(v, f)]
    ELSE IF galleryCatches(v) THEN [status |-> 500, media |-> <<>>]
    ELSE [status |-> NoResponse, media |-> <<>>]

-----------------------------------------------------------------------------
(* State.                                                                  *)

\* No operation has run since the backends last changed.
Idle == [kind |-> "idle"]

\* The file names of the model: a plain image, a video whose name needs
\* escaping and whose extension is in upper case, a text file, a dot-file.
Names ==
    { <<"a",".","p","n","g">>,
      <<"b"," ","%",".","M","P","4">>,
      <<"n",".","t","x","t">>,
      <<".","m","o","v">> }

\* Modification times: two dates and, for what a remote stat returns, one
\* value that is no date (fs.statSync always gives a date).
Dates == {1, 2}
Times == Dates \cup {InvalidTime}

\* The number of entries of all backends.
Entries == Len(local) + Len(sftp) + Len(nextcloud)

\* Whether directory dir has an entry called name.
Has(dir, name) == \E i \in 1..Len(dir) : dir[i].name = name

\* The entries a backend may gain in the catalog model.  No lister reads the
\* modification time of an entry its filter drops: those have one value.
NewEntries(dir, times) ==
    { e \in [name : Names, kind : {"file"}, mtime : times, size : {7}, tag : {"x"}] :
        /\ ~Has(dir, e.name)
        /\ (~isMedia(e.name) => e.mtime = 1) }

\* Something outside the server stores a file in a backend directory.
PutLocal ==
    /\ Len(local) < MaxList /\ Entries < MaxEntries
    /\ \E e \in NewEntries(local, Dates) : local' = Append(local, e)
    /\ op' = Idle
    /\ UNCHANGED <<variant, env, sftp, nextcloud, pending>>

PutSftp ==
    /\ Len(sftp) < MaxList /\ Entries < MaxEntries
    /\ \E e \in NewEntries(sftp, Times) : sftp' = Append(sftp, e)
    /\ op' = Idle
    /\ UNCHANGED <<variant, env, local, nextcloud, pending>>

PutNextcloud ==
    /\ hasNextcloud(variant)
    /\ Len(nextcloud) < MaxList /\ Entries < MaxEntries
    /\ \E e \in NewEntries(nextcloud, Times) : nextcloud' = Append(nextcloud, e)
    /\ op' = Idle
    /\ UNCHANGED <<variant, env, local, sftp, pending>>

\* A gallery request that removes from the local directory what its filter
\* drops.
GalleryPruning ==
    /\ \E f \in BuildInputs(variant) :
          LET r == galleryHandler(variant, f)
          IN  op' = [kind |-> "gallery", in |-> f,
                     status |-> r.status, media |-> r.media]
    /\ local' = SelectSeq(local, LAMBDA e : isMedia(e.name))
    /\ UNCHANGED <<variant, env, sftp, nextcloud, pending>>

\* GET / (GET /gallery in app_2 and part2_1): build the catalog and render it.
Gallery ==
    /\ \E f \in BuildInputs(variant) :
          LET r == galleryHandler(variant, f)
          IN  op' = [kind |-> "gallery", in |-> f,
                     status |-> r.status, media |-> r.media]
    /\ UNCHANGED <<variant, env, local, sftp, nextcloud, pending>>

InitCatalog ==
    /\ variant \in Variants
    /\ env = [ALLOWED_IP |-> "10.0.0.1", UPLOAD_LIMIT_MB |-> 0]
    /\ local = <<>> /\ sftp = <<>> /\ nextcloud = <<>>
    /\ pending = <<>>
    /\ op = Idle

NextCatalog == PutLocal \/ PutSftp \/ PutNextcloud \/ Gallery

SpecCatalog == InitCatalog /\ [][NextCatalog]_vars

\* The same request while a stat or sftp.end() throws.
GalleryFault ==
    /\ \E f \in FaultInputs(variant) :
          LET r == galleryHandler(variant, f)
          IN  op' = [kind |-> "gallery", in |-> f,
                     status |-> r.status, media |-> r.media]
    /\ UNCHANGED <<variant, env, local, sftp, nextcloud, pending>>

NextFault == PutLocal \/ PutSftp \/ PutNextcloud \/ GalleryFault

SpecFault == InitCatalog /\ [][NextFault]_vars

-----------------------------------------------------------------------------
(* The access policy, uploads and folder management.                       *)

\* The addresses a request may come from; "none" is an undefined req.ip.
Ips == {"10.0.0.1", "10.0.0.2", "none"}

\* What process.env may hold: the allowed address ("none" when unset; the
\* variable is ALLOWED_IP or UPLOAD_ALLOWED_IP, by variant) and
\* UPLOAD_LIMIT_MB (0 when unset or "0": parseInt(...) || 700 treats both
\* alike).
Envs == [ALLOWED_IP : {"10.0.0.1", "none"}, UPLOAD_LIMIT_MB : {0, 50}]

\* ipRestrict / folderManagementIpRestrict: whether next() is called;
\* otherwise the response is 403.
ipRestrict(clientIp) == clientIp = env.ALLOWED_IP

\* Whether POST /upload has ipRestrict in its middleware chain.
uploadGated(v) == v # "part2_1"

\* Which variants have POST /create-folder, and of those which create the
\* folder with the asynchronous fs.mkdir, and which test fs.existsSync first.
hasCreateFolder(v)   == v \in {"app_1", "app_2", "part1", "part2_1", "part2_3"}
createsAsync(v)      == v \in {"app_1", "part1", "part2_3"}
checksExists(v)      == v \in {"app_1", "app_2", "part2_1", "part2_3"}
\* Only part1 has POST /delete-folder.
hasDeleteFolder(v)   == v = "part1"

MB == 1024 * 1024
DefaultLimitMB == 700
FixedLimitMB == 100

\* const UPLOAD_LIMIT_MB = parseInt(process.env.UPLOAD_LIMIT_MB, 10) || 700;
UPLOAD_LIMIT_MB == IF env.UPLOAD_LIMIT_MB = 0 THEN DefaultLimitMB
                                              ELSE env.UPLOAD_LIMIT_MB

\* limits: { fileSize: ... } of the multer configuration.
fileSizeLimit(v) == IF v = "part2_2" THEN FixedLimitMB * MB
                                     ELSE UPLOAD_LIMIT_MB * MB

\* The time a file or folder created now gets.
Now == Max(Dates)

\* An absent form field (undefined), and the absent file part.
Undefined == <<"undefined">>
NoFile == [originalname |-> Undefined, size |-> 0, tag |-> "none"]

\* The sizes of the files a client uploads, in bytes.
Sizes == {1, 60 * MB, 800 * MB}
\* The names they have at the client.
UploadNames == { <<"a",".","p","n","g">>, <<"b"," ","%",".","M","P","4">> }
UploadFiles == [originalname : UploadNames, size : Sizes, tag : {"u1"}]

\* The random names multer gives the files it stores.
TmpNames == { <<"0","e">>, <<"f","3">> }

\* The position of the entry called name in dir (0: none).
IndexOf(dir, name) ==
    IF Has(dir, name) THEN CHOOSE i \in 1..Len(dir) : dir[i].name = name ELSE 0

\* dir without its entry called name.
Remove(dir, name) == SelectSeq(dir, LAMBDA e : e.name # name)

\* dir after rename(from, to): an entry called to is replaced.
Rename(dir, from, to) ==
    LET d == IF from = to THEN dir ELSE Remove(dir, to)
    IN  [i \in 1..Len(d) |-> IF d[i].name = from THEN [d[i] EXCEPT !.name = to]
                                                 ELSE d[i]]

\* Whether name is an existing folder of dir.
IsDir(dir, name) == \E i \in 1..Len(dir) : dir[i].name = name /\ dir[i].kind = "dir"

\* mime.extension(mime.lookup(originalname) || 'video/mp4') || 'mp4':
\* the first extension mime-db lists for the type of the name's extension.
mimeExtension(originalname) ==
    LET ext == toLowerCase(extname(<<"x",".">> \o originalname))
    IN  CASE ext = <<".","p","n","g">>     -> <<"p","n","g">>
          [] ext = <<".","j","p","g">>     -> <<"j","p","e","g">>
          [] ext = <<".","j","p","e","g">> -> <<"j","p","e","g">>
          [] ext = <<".","g","i","f">>     -> <<"g","i","f">>
          [] ext = <<".","w","e","b","p">> -> <<"w","e","b","p">>
          [] ext = <<".","m","p","4">>     -> <<"m","p","4">>
          [] ext = <<".","a","v","i">>     -> <<"a","v","i">>
          [] ext = <<".","m","o","v">>     -> <<"q","t">>
          [] ext = <<".","t","x","t">>     -> <<"t","x","t">>
          [] OTHER                         -> <<"m","p","4">>

\* An upload middleware that stores nothing.
multerLost(v, dir, f, tmp) == [error |-> FALSE, local |-> dir]

\* upload.single(field) with disk storage: a file part is stored under a
\* random name in the local directory; a part larger than limits.fileSize
\* ends in an error (LIMIT_FILE_SIZE) after multer has removed what it wrote.
multer(v, dir, f, tmp) ==
    IF f = NoFile THEN [error |-> FALSE, local |-> dir]
    ELSE IF f.size > fileSizeLimit(v) THEN [error |-> TRUE, local |-> dir]
    ELSE [error |-> FALSE,
          local |-> Append(dir, [name |-> tmp, kind |-> "file", mtime |-> Now,
                                 size |-> f.size, tag |-> f.tag])]

\* What the SFTP server does to the upload of app_2.
SftpOutcomes == {"ok", "connectFails", "putFails"}

\* sftp.put(localFilePath, path.join(SFTP_DIR, name)): the remote file is
\* written, replacing one of the same name.
sftpPut(dir, name, f) ==
    Append(Remove(dir, name), [name |-> name, kind |-> "file", mtime |-> Now,
                               size |-> f.size, tag |-> f.tag])

\* The route handler of POST /upload, after ipRestrict and multer have
\* called next(): the status it answers with, the directories it leaves, and
\* whether it has called createSFTPConnection.  In app_2 sftp.end follows
\* sftp.put inside the try block: it is reached only when both succeeded.
uploadHandler(v, dir, f, tmp, s) ==
    CASE v \in {"part0", "part1", "part2_1"} ->
            [status |-> 200, local |-> dir, sftp |-> sftp, connects |-> FALSE]
      [] v \in {"app_1", "part2_3"} ->
            [status |-> IF f = NoFile THEN 400 ELSE 200, local |-> dir, sftp |-> sftp,
             connects |-> FALSE]
      [] v = "part2_2" ->
            IF f = NoFile
            THEN [status |-> 400, local |-> dir, sftp |-> sftp, connects |-> FALSE]
            ELSE [status |-> 200,
                  local  |-> Rename(dir, tmp, tmp \o <<".">> \o mimeExtension(f.originalname)),
                  sftp   |-> sftp, connects |-> FALSE]
      [] v = "app_2" ->
            IF f = NoFile
            THEN [status |-> 400, local |-> dir, sftp |-> sftp, connects |-> FALSE]
            ELSE IF IsDir(dir, f.originalname)
                 THEN \* fs.renameSync throws: the catch answers 500
                      [status |-> 500, local |-> dir, sftp |-> sftp, connects |-> FALSE]
            ELSE LET renamed == Rename(dir, tmp, f.originalname)
                 IN  IF s = "ok"
                     THEN [status |-> 200, local |-> renamed,
                           sftp   |-> sftpPut(sftp, f.originalname, f), connects |-> TRUE]
                     ELSE [status |-> 500, local |-> renamed, sftp |-> sftp,
                           connects |-> TRUE]

\* POST /upload, the whole chain: ipRestrict (where the route has it),
\* multer, the handler.  A multer error reaches Express's default error
\* handler, which answers 500.
upload(v, ip, f, tmp, s) ==
    IF uploadGated(v) /\ ~ipRestrict(ip)
    THEN [status |-> 403, local |-> local, sftp |-> sftp, connects |-> FALSE]
    ELSE LET m == multer(v, local, f, tmp)
         IN  IF m.error THEN [status |-> 500, local |-> m.local, sftp |-> sftp,
                              connects |-> FALSE]
                        ELSE uploadHandler(v, m.local, f, tmp, s)

\* What the directories and the pending calls were before an operation.
Before == [local |-> local, sftp |-> sftp, pending |-> pending]

\* The file of the upload that was answered 200 just before this request,
\* if the last request was one.
LastUploaded ==
    IF op.kind = "upload" /\ op.status = 200 THEN op.file ELSE NoFile

Upload ==
    \E ip \in Ips, f \in UploadFiles \cup {NoFile}, tmp \in TmpNames, s \in SftpOutcomes :
        LET r == upload(variant, ip, f, tmp, s)
        IN  /\ ~Has(local, tmp)
            /\ tmp = (CHOOSE t \in TmpNames : ~Has(local, t))
            /\ ~r.connects => s = "ok"
            /\ Len(r.local) <= MaxList /\ Len(r.sftp) <= MaxList
            /\ local' = r.local
            /\ sftp' = r.sftp
            /\ op' = [kind |-> "upload", ip |-> ip, file |-> f, sftpOutcome |-> s,
                      status |-> r.status, before |-> Before, prev |-> LastUploaded,
                      opened |-> r.connects /\ s # "connectFails",
                      closed |-> r.connects /\ s = "ok"]
            /\ UNCHANGED <<variant, env, nextcloud, pending>>

\* A new, empty folder.
newFolder(name) ==
    [name |-> name, kind |-> "dir", mtime |-> Now, size |-> 0, tag |-> "empty"]

\* The form values of folderName: a name, the empty string, or no field;
\* "." names the local directory itself and "../d" a folder beside it.
FolderNames == { <<"a",".","p","n","g">>, <<>>, Undefined,
                 <<".">>, <<".",".","/","d">> }

\* The segments of a path, split at "/".
RECURSIVE segments(_)
segments(name) ==
    IF \A i \in 1..Len(name) : name[i] # "/" THEN <<name>>
    ELSE LET k == CHOOSE i \in 1..Len(name) :
                      name[i] = "/" /\ \A j \in 1..(i - 1) : name[j] # "/"
         IN  <<SubSeq(name, 1, k - 1)>> \o segments(Drop(name, k))

\* How far below the local directory the first n segments lead (negative:
\* above it), as path.join normalises them.
RECURSIVE depth(_, _)
depth(segs, n) ==
    IF n = 0 THEN 0
    ELSE depth(segs, n - 1)
         + (CASE segs[n] \in {<<>>, <<".">>} -> 0
              [] segs[n] = <<".", ".">>      -> 0 - 1
              [] OTHER                       -> 1)

\* Where path.join(LOCAL_MEDIA_DIR, name) lies: inside the local directory,
\* at the directory itself ("root"), or outside it.
pathJoin(name) ==
    LET segs == segments(name)
    IN  IF \E n \in 1..Len(segs) : depth(segs, n) < 0 THEN "outside"
        ELSE IF depth(segs, Len(segs)) = 0 THEN "root"
        ELSE "inside"

\* Whether the path of name exists (is a folder): outside says so for a path
\* outside the local directory.
pathExists(dir, name, outside) ==
    CASE pathJoin(name) = "inside"  -> Has(dir, name)
      [] pathJoin(name) = "root"    -> TRUE
      [] pathJoin(name) = "outside" -> outside
pathIsDir(dir, name, outside) ==
    CASE pathJoin(name) = "inside"  -> IsDir(dir, name)
      [] pathJoin(name) = "root"    -> TRUE
      [] pathJoin(name) = "outside" -> outside

MaxPending == 1

\* POST /create-folder up to the point where the handler returns: the status
\* it has answered with (NoResponse while fs.mkdir is under way), whether it
\* has called fs.mkdir, and whether it has created the folder (mkdirSync).
\* part1 joins the path before it tests folderName, so an absent field
\* throws (Express answers 500); part1 does not test fs.existsSync.
createFolder(v, ip, folderName, outside) ==
    IF ~ipRestrict(ip) THEN [status |-> 403, call |-> FALSE, mkdirSync |-> FALSE]
    ELSE IF v = "part1" /\ folderName = Undefined
         THEN [status |-> 500, call |-> FALSE, mkdirSync |-> FALSE]
    ELSE IF folderName \in {<<>>, Undefined}
         THEN [status |-> 400, call |-> FALSE, mkdirSync |-> FALSE]
    ELSE IF checksExists(v) /\ pathExists(local, folderName, outside)
         THEN [status |-> 400, call |-> FALSE, mkdirSync |-> FALSE]
    ELSE IF createsAsync(v)
         THEN [status |-> NoResponse, call |-> TRUE, mkdirSync |-> FALSE]
         ELSE [status |-> 200, call |-> FALSE, mkdirSync |-> TRUE]

\* Whether a call of fs.mkdir for the path of name is under way.
mkdirUnderWay(name) ==
    \E j \in 1..Len(pending) : pending[j].call = "mkdir" /\ pending[j].name = name

\* The pending calls, those for the path of name marked as having been
\* under way together with another call for it.
markRaced(name) ==
    [j \in 1..Len(pending) |->
        IF pending[j].call = "mkdir" /\ pending[j].name = name
        THEN [pending[j] EXCEPT !.raced = TRUE] ELSE pending[j]]

\* POST /create-folder while at most n calls of fs.mkdir / fs.rmdir are
\* under way.
CreateFolderUpTo(n) ==
    /\ hasCreateFolder(variant)
    /\ \E ip \in Ips, folderName \in FolderNames, outside \in BOOLEAN :
        LET r == createFolder(variant, ip, folderName, outside)
            inside == pathJoin(folderName) = "inside"
            reads  == ipRestrict(ip) /\ folderName \notin {<<>>, Undefined}
                      /\ ~inside
        IN  /\ ~reads => ~outside
            /\ r.call => Len(pending) < n
            /\ (r.mkdirSync /\ inside) => Len(local) < MaxList
            /\ local' = IF r.mkdirSync /\ inside
                        THEN Append(local, newFolder(folderName))
                        ELSE local
            /\ pending' = IF r.call
                          THEN Append(markRaced(folderName),
                                      [call |-> "mkdir", name |-> folderName,
                                       ip |-> ip,
                                       existed |-> pathIsDir(local, folderName, outside),
                                       raced |-> mkdirUnderWay(folderName)])
                          ELSE pending
            /\ op' = [kind |-> "create-folder", ip |-> ip, folderName |-> folderName,
                      existed |-> pathIsDir(local, folderName, outside),
                      raced |-> r.call /\ mkdirUnderWay(folderName),
                      status |-> r.status, before |-> Before]
            /\ UNCHANGED <<variant, env, sftp, nextcloud>>

CreateFolder == CreateFolderUpTo(MaxPending)

\* pending without its k-th call.
Without(k) == SubSeq(pending, 1, k - 1) \o SubSeq(pending, k + 1, Len(pending))

\* The callback of fs.mkdir: EEXIST when the path exists (answer 500),
\* otherwise the folder is there and the answer is 200.  A folder outside
\* the local directory exists as it did when the request came.
MkdirDone ==
    \E k \in 1..Len(pending) :
        LET name   == pending[k].name
            inside == pathJoin(name) = "inside"
            exists == pathExists(local, name, pending[k].existed)
        IN  /\ pending[k].call = "mkdir"
            /\ (inside /\ ~exists) => Len(local) < MaxList
            /\ local' = IF inside /\ ~exists THEN Append(local, newFolder(name))
                                             ELSE local
            /\ pending' = Without(k)
            /\ op' = [kind |-> "create-folder", ip |-> pending[k].ip,
                      folderName |-> name, existed |-> pending[k].existed,
                      raced |-> pending[k].raced,
                      status |-> IF exists THEN 500 ELSE 200,
                      before |-> Before]
        /\ UNCHANGED <<variant, env, sftp, nextcloud>>

\* POST /delete-folder of part1 up to the point where the handler returns.
deleteFolder(ip, folderName) ==
    IF ~ipRestrict(ip) THEN [status |-> 403, call |-> FALSE]
    ELSE IF folderName = Undefined THEN [status |-> 500, call |-> FALSE]
    ELSE IF folderName = <<>> THEN [status |-> 400, call |-> FALSE]
    ELSE [status |-> NoResponse, call |-> TRUE]

DeleteFolder ==
    /\ hasDeleteFolder(variant)
    /\ \E ip \in Ips, folderName \in FolderNames, outside \in BOOLEAN :
        LET r == deleteFolder(ip, folderName)
        IN  /\ ~(r.call /\ pathJoin(folderName) = "outside") => ~outside
            /\ r.call => Len(pending) < MaxPending
            /\ pending' = IF r.call
                          THEN Append(pending, [call |-> "rmdir", name |-> folderName,
                                                ip |-> ip,
                                                existed |-> pathIsDir(local, folderName,
                                                                      outside),
                                                raced |-> FALSE])
                          ELSE pending
            /\ op' = [kind |-> "delete-folder", ip |-> ip, folderName |-> folderName,
                      existed |-> pathIsDir(local, folderName, outside),
                      status |-> r.status, before |-> Before]
            /\ UNCHANGED <<variant, env, local, sftp, nextcloud>>

\* The statuses the callback of fs.rmdir(path, { recursive: true }) can
\* answer with: a folder is removed with all below it (200); a file is
\* ENOTDIR (500); a missing path is ignored or ENOENT, by Node version.
rmdirStatuses(dir, name, outside) ==
    IF pathIsDir(dir, name, outside) THEN {200}
    ELSE IF pathExists(dir, name, outside) THEN {500}
    ELSE {200, 500}

\* The callback of fs.rmdir.  Removing the local directory itself removes
\* all it holds (the directory is taken to be there again, empty, for the
\* requests that follow).
RmdirDone ==
    \E k \in 1..Len(pending) :
        LET name == pending[k].name
        IN  /\ pending[k].call = "rmdir"
            /\ \E st \in rmdirStatuses(local, name, pending[k].existed) :
                  op' = [kind |-> "delete-folder", ip |-> pending[k].ip,
                         folderName |-> name, existed |-> pending[k].existed,
                         status |-> st, before |-> Before]
            /\ local' = CASE pathJoin(name) = "root" -> <<>>
                          [] pathJoin(name) = "inside" /\ IsDir(local, name) ->
                                Remove(local, name)
                          [] OTHER -> local
            /\ pending' = Without(k)
        /\ UNCHANGED <<variant, env, sftp, nextcloud>>

\* Something outside the server stores files in a folder of the local
\* directory.
FillFolder ==
    /\ \E i \in 1..Len(local) :
          /\ local[i].kind = "dir" /\ local[i].tag = "empty"
          /\ local' = [local EXCEPT ![i].tag = "tree"]
    /\ op' = Idle
    /\ UNCHANGED <<variant, env, sftp, nextcloud, pending>>

Init ==
    /\ variant \in Variants
    /\ env \in Envs
    /\ local = <<>> /\ sftp = <<>> /\ nextcloud = <<>>
    /\ pending = <<>>
    /\ op = Idle

Next == Upload \/ CreateFolder \/ MkdirDone \/ DeleteFolder \/ RmdirDone \/ FillFolder

Spec == Init /\ [][Next]_vars

\* Folder creation with several requests in flight.
MaxInFlight == 2

CreateFolderRace == CreateFolderUpTo(MaxInFlight)

NextRace == CreateFolderRace \/ MkdirDone

SpecRace == Init /\ [][NextRace]_vars

-----------------------------------------------------------------------------
(* Streaming of local files: GET /local/<filename>.                        *)

\* The largest file, in bytes, and the numbers a Range header may name.
MaxSize == 3
Offsets == 0..MaxSize

\* The local files requests ask for: one that express.static serves, one
\* whose name starts with a dot, and one that is never stored.
Dotfile == <<".","m","o","v">>
StreamNames == { <<"a",".","p","n","g">>, Dotfile }
RequestNames == StreamNames \cup { <<"n",".","t","x","t">> }

\* The two numbers of the header "bytes=<first>-<last>", each a decimal
\* number <<n>> or the empty string <<>>; NoRange is a request without the
\* header.
Tokens == { <<n>> : n \in Offsets } \cup { <<>> }
Ranges == [unit : {"bytes"}, first : Tokens, last : Tokens]
NoRange == [unit |-> "none", first |-> <<>>, last |-> <<>>]

\* The i-th byte (from 0) of the file of entry e.
byte(e, i) == <<e.tag, i>>

\* What fs.createReadStream(path, { start, end }) delivers: the bytes from
\* start to end inclusive, as far as the file has them.
createReadStream(e, start, end) ==
    LET last == Min({end, e.size - 1})
    IN  IF last < start THEN <<>>
        ELSE [i \in 1..(last - start + 1) |-> byte(e, start + i - 1)]

\* The entry called name in dir.
Entry(dir, name) == dir[IndexOf(dir, name)]

\* mime.lookup by extension, with send's default type.
mimeLookup(name) ==
    LET ext == toLowerCase(extname(name))
    IN  CASE ext = <<".","p","n","g">> -> "image/png"
          [] ext = <<".","m","p","4">> -> "video/mp4"
          [] ext = <<".","m","o","v">> -> "video/quicktime"
          [] ext = <<".","t","x","t">> -> "text/plain"
          [] OTHER                     -> "application/octet-stream"

\* The answer of Express when no route answers, and of its default error
\* handler.
errorPage(status) ==
    [status |-> status, headers |-> [contentType |-> "text/html"], body |-> <<>>]

\* range-parser, as send calls it for one range: parseInt of an empty string
\* is NaN, "-n" means the last n bytes and "n-" from n to the end, the end is
\* limited to the last byte, and a range that starts after its end or before
\* 0 is unsatisfiable.
rangeParser(size, range) ==
    LET startNaN == range.first = <<>>
        endNaN   == range.last = <<>>
        start    == IF startNaN THEN (IF endNaN THEN 0 ELSE size - range.last[1])
                                ELSE range.first[1]
        end      == IF startNaN \/ endNaN THEN size - 1 ELSE range.last[1]
        limited  == IF end > size - 1 THEN size - 1 ELSE end
    IN  IF (startNaN /\ endNaN) \/ start > limited \/ start < 0
        THEN [satisfiable |-> FALSE, start |-> 0, end |-> 0]
        ELSE [satisfiable |-> TRUE, start |-> start, end |-> limited]

\* send, the file server behind express.static, for the regular file of
\* entry e.
send(e, range) ==
    IF range = NoRange
    THEN [status  |-> 200,
          headers |-> [acceptRanges |-> "bytes", contentLength |-> e.size,
                       contentType |-> mimeLookup(e.name)],
          body    |-> createReadStream(e, 0, e.size - 1)]
    ELSE LET r == rangeParser(e.size, range)
         IN  IF ~r.satisfiable
             THEN [status  |-> 416,
                   headers |-> [contentRange |-> <<e.size>>, contentType |-> "text/html"],
                   body    |-> <<>>]
             ELSE [status  |-> 206,
                   headers |-> [acceptRanges |-> "bytes",
                                contentRange |-> <<r.start, r.end, e.size>>,
                                contentLength |-> r.end - r.start + 1,
                                contentType |-> mimeLookup(e.name)],
                   body    |-> createReadStream(e, r.start, r.end)]

\* app.use('/local', express.static(dir)): a missing file and a file whose
\* name starts with a dot are passed on to the next handler.
serveStatic(dir, filename, range) ==
    IF ~Has(dir, filename) \/ filename[1] = "."
    THEN [handled |-> FALSE, res |-> errorPage(404)]
    ELSE [handled |-> TRUE, res |-> send(Entry(dir, filename), range)]

\* Number(s) of a token of the header: 0 for the empty string.
Number(t) == IF t = <<>> THEN 0 ELSE t[1]

\* The process ends on the exception thrown in the callback; nothing is
\* answered.
Crash == [status |-> NoResponse, headers |-> [contentType |-> ""], body |-> <<>>]

\* A handler that counts the span without its last byte.
localRouteShort(dir, filename, range) ==
    IF ~Has(dir, filename) THEN errorPage(404)
    ELSE LET e     == Entry(dir, filename)
             start == Number(range.first)
             end   == Number(range.last)
         IN  IF range = NoRange
             THEN [status  |-> 200,
                   headers |-> [contentLength |-> e.size, contentType |-> "video/mp4"],
                   body    |-> createReadStream(e, 0, e.size - 1)]
             ELSE IF start > end THEN Crash
             ELSE [status  |-> 206,
                   headers |-> [contentRange |-> <<start, end, e.size>>,
                                acceptRanges |-> "bytes",
                                contentLength |-> end - start,
                                contentType |-> "video/mp4"],
                   body    |-> createReadStream(e, start, end - 1)]

\* The handler of app.get('/local/:filename'): 404 when fs.stat fails; with
\* a Range header 206 for the two numbers as they are, without one 200 and
\* the whole file.  fs.createReadStream throws when start > end.
localRoute(dir, filename, range) ==
    IF ~Has(dir, filename) THEN errorPage(404)
    ELSE LET e     == Entry(dir, filename)
             start == Number(range.first)
             end   == Number(range.last)
         IN  IF range = NoRange
             THEN [status  |-> 200,
                   headers |-> [contentLength |-> e.size, contentType |-> "video/mp4"],
                   body    |-> createReadStream(e, 0, e.size - 1)]
             ELSE IF start > end THEN Crash
             ELSE [status  |-> 206,
                   headers |-> [contentRange |-> <<start, end, e.size>>,
                                acceptRanges |-> "bytes",
                                contentLength |-> (end - start) + 1,
                                contentType |-> "video/mp4"],
                   body    |-> createReadStream(e, start, end)]

\* Which variants have the route GET /local/:filename after the static
\* mount.
hasLocalRoute(v) == v \in {"part1", "part2_2"}

\* GET /local/<filename>, the whole chain.
getLocal(v, dir, filename, range) ==
    LET s == serveStatic(dir, filename, range)
    IN  IF s.handled THEN s.res
        ELSE IF hasLocalRoute(v) THEN localRoute(dir, filename, range)
        ELSE errorPage(404)

\* A file comes to the local directory.
StoreLocal ==
    /\ Len(local) < MaxList
    /\ \E name \in StreamNames, size \in 1..MaxSize :
          /\ ~Has(local, name)
          /\ local' = Append(local, [name |-> name, kind |-> "file", mtime |-> Now,
                                     size |-> size,
                                     tag |-> IF name = Dotfile THEN "h" ELSE "v"])
    /\ op' = Idle
    /\ UNCHANGED <<variant, env, sftp, nextcloud, pending>>

GetLocal ==
    /\ \E filename \in RequestNames, range \in Ranges \cup {NoRange} :
          LET res == getLocal(variant, local, filename, range)
          IN  op' = [kind |-> "get-local", filename |-> filename, range |-> range,
                     status |-> res.status, headers |-> res.headers, body |-> res.body]
    /\ UNCHANGED <<variant, env, local, sftp, nextcloud, pending>>

NextStream == StoreLocal \/ GetLocal

SpecStream == InitCatalog /\ [][NextStream]_vars

\* GET /local/<filename> for a file that is removed after fs.stat has found
\* it and before it is read: the answer, whether the head of the response
\* was written before the read failed (started), and how the request ends.
\*   express.static: send has set no more than headers when the stream
\*     reports ENOENT; it passes the request on, and the route handler (or
\*     Express) answers 404;
\*   the route handler: res.writeHead has run, the stream that is piped
\*     emits 'error', nothing listens to it, and the process ends.
lostLocal(v, dir, filename, range) ==
    IF serveStatic(dir, filename, range).handled
    THEN [res |-> errorPage(404), started |-> FALSE, ending |-> "complete"]
    ELSE LET r == localRoute(dir, filename, range)
         IN  [res     |-> [status |-> r.status, headers |-> r.headers, body |-> <<>>],
              started |-> TRUE, ending |-> "crash"]

\* The request comes while the file is there and is answered by reading it.
GetLocalLost ==
    /\ \E filename \in RequestNames, range \in Ranges \cup {NoRange} :
          LET r == lostLocal(variant, local, filename, range)
          IN  /\ getLocal(variant, local, filename, range).status \in {200, 206}
              /\ op' = [kind |-> "get-local-lost", filename |-> filename,
                        range |-> range, status |-> r.res.status,
                        headers |-> r.res.headers, body |-> r.res.body,
                        started |-> r.started, ending |-> r.ending]
    /\ UNCHANGED <<variant, env, local, sftp, nextcloud, pending>>

NextAbort == StoreLocal \/ GetLocalLost

SpecAbort == InitCatalog /\ [][NextAbort]_vars

-----------------------------------------------------------------------------
(* Requests for the urls of the gallery: GET /local/..., /media/...,       *)
(* /nextcloud/... without a Range header.                                  *)

\* The files of the remote backends, and the names requests ask for.
RemoteNames == { <<"a",".","p","n","g">>, <<"b"," ","%",".","M","P","4">> }
GetNames == StreamNames \cup RemoteNames

\* What a remote backend does to one request: it serves it, it cannot be
\* connected to, or the transfer fails after the connection.
RemoteOutcomes == {"ok", "connectFails", "getFails"}

\* Which variants have a route GET /media/:filename that reads from the SFTP
\* server, and which a route GET /nextcloud/:filename that reads from
\* Nextcloud.  app_2 and part0 mount express.static on folders of the local
\* disk under these prefixes instead; app_1 has neither.
hasMediaRoute(v) == v \in {"part1", "part2_1", "part2_2", "part2_3"}
hasNextcloudRoute(v) == v = "part2_1"

\* A response of 200 with the whole file of entry e.
whole(e, headers) ==
    [status |-> 200, headers |-> headers, body |-> createReadStream(e, 0, e.size - 1)]

\* app.get('/media/:filename'): createSFTPConnection, sftp.get without a
\* destination (it resolves to a Buffer, and rejects for a missing file),
\* then the answer; sftp.end in the finally block when the connection was
\* made.
\*   part1:              a Buffer is sent with its type and length; a
\*                       rejection is answered 500;
\*   part2_1, part2_2:   the same with a fixed type and no length;
\*   part2_3:            fileStream.pipe(res) on the Buffer is a TypeError,
\*                       and the catch answers 404 to every exception.
\* steps is the order of what the handler does with the session and the
\* response: pipe() only starts the transfer to the client, the finally
\* block calls sftp.end() in the same turn, and the last byte is delivered
\* in a later one.
mediaRoute(v, dir, filename, s) ==
    LET found  == s = "ok" /\ Has(dir, filename)
        opened == s # "connectFails"
        steps  == IF ~opened THEN <<"connect-rejected", "send">>
                  ELSE IF found /\ v \in {"part1", "part2_1", "part2_2"}
                       THEN <<"connect", "get", "pipe", "end", "delivered">>
                  ELSE IF found THEN <<"connect", "get", "send", "end">>
                  ELSE <<"connect", "get-rejected", "send", "end">>
        res    ==
            CASE v = "part1" ->
                    IF found
                    THEN whole(Entry(dir, filename),
                               [contentType |-> mimeLookup(filename),
                                contentLength |-> Entry(dir, filename).size])
                    ELSE errorPage(500)
              [] v \in {"part2_1", "part2_2"} ->
                    IF found
                    THEN whole(Entry(dir, filename),
                               [contentType |-> "application/octet-stream"])
                    ELSE errorPage(500)
              [] OTHER -> errorPage(404)
    IN  [res |-> res, opened |-> opened, closed |-> opened, steps |-> steps]

\* app.get('/nextcloud/:filename') of part2_1: client.createReadStream
\* returns a stream at once and the handler pipes it; when the file is
\* missing or the server does not answer, the stream emits an error that
\* nothing listens to, and the process ends.
nextcloudRoute(dir, filename, s) ==
    IF s = "ok" /\ Has(dir, filename)
    THEN whole(Entry(dir, filename), [contentType |-> "application/octet-stream"])
    ELSE Crash

\* Whether the request for url reaches a remote backend in variant v.
contactsRemote(v, url) ==
    \/ IsPrefix(MediaPrefix, url) /\ hasMediaRoute(v)
    \/ IsPrefix(NextcloudPrefix, url) /\ hasNextcloudRoute(v)

\* GET url, the whole chain: the mount or route of the prefix gets the
\* decoded rest of the path; a url no mount or route serves is answered 404.
getUrl(v, url, s) ==
    LET none == [opened |-> FALSE, closed |-> FALSE, steps |-> <<>>]
        rest(prefix) == decodeURIComponent(Drop(url, Len(prefix)))
    IN  CASE IsPrefix(LocalPrefix, url) ->
                [res |-> IF rest(LocalPrefix) = URIError THEN errorPage(400)
                         ELSE getLocal(v, local, rest(LocalPrefix), NoRange)] @@ none
          [] IsPrefix(MediaPrefix, url) /\ hasMediaRoute(v) ->
                IF rest(MediaPrefix) = URIError THEN [res |-> errorPage(400)] @@ none
                ELSE mediaRoute(v, sftp, rest(MediaPrefix), s)
          [] IsPrefix(NextcloudPrefix, url) /\ hasNextcloudRoute(v) ->
                [res |-> IF rest(NextcloudPrefix) = URIError THEN errorPage(400)
                         ELSE nextcloudRoute(nextcloud, rest(NextcloudPrefix), s)] @@ none
          [] OTHER -> [res |-> errorPage(404)] @@ none

\* The urls requests ask for: the urls a catalog gives the names, present
\* or not.
RequestUrls(v) ==
    { prefix \o encodeURIComponent(n) :
        prefix \in {LocalPrefix, MediaPrefix, NextcloudPrefix}
                   \cup (IF v = "part0" THEN {DavRoot} ELSE {}),
        n \in GetNames }

\* A file comes to the SFTP directory.
StoreSftp ==
    /\ Len(sftp) < MaxList /\ Entries < MaxEntries
    /\ \E name \in RemoteNames :
          /\ ~Has(sftp, name)
          /\ sftp' = Append(sftp, [name |-> name, kind |-> "file", mtime |-> Now,
                                   size |-> MaxSize, tag |-> "s"])
    /\ op' = Idle
    /\ UNCHANGED <<variant, env, local, nextcloud, pending>>

\* A file comes to the Nextcloud directory.
StoreNextcloud ==
    /\ hasNextcloud(variant) \/ hasNextcloudRoute(variant)
    /\ Len(nextcloud) < MaxList /\ Entries < MaxEntries
    /\ \E name \in RemoteNames :
          /\ ~Has(nextcloud, name)
          /\ nextcloud' = Append(nextcloud, [name |-> name, kind |-> "file",
                                             mtime |-> Now, size |-> MaxSize,
                                             tag |-> "n"])
    /\ op' = Idle
    /\ UNCHANGED <<variant, env, local, sftp, pending>>

\* A file comes to the local directory while the remote ones hold files.
StoreLocalToo == Entries < MaxEntries /\ StoreLocal

GetUrl ==
    /\ \E url \in RequestUrls(variant), s \in RemoteOutcomes :
          LET r == getUrl(variant, url, s)
          IN  /\ ~contactsRemote(variant, url) => s = "ok"
              /\ op' = [kind |-> "get", url |-> url, outcome |-> s,
                        status |-> r.res.status, headers |-> r.res.headers,
                        body |-> r.res.body,
                        opened |-> r.opened, closed |-> r.closed,
                        steps |-> r.steps]
    /\ UNCHANGED <<variant, env, local, sftp, nextcloud, pending>>

NextRemote == StoreLocalToo \/ StoreSftp \/ StoreNextcloud \/ GetUrl

SpecRemote == InitCatalog /\ [][NextRemote]_vars

-----------------------------------------------------------------------------
(* Vocabulary of the claims about the catalog.                             *)

\* The backends variant v lists, in merge order.
BackendsOf(v) == IF hasNextcloud(v) THEN {"sftp", "local", "nextcloud"}
                                    ELSE {"sftp", "local"}

\* The directory of backend b.
DirOf(b) == CASE b = "sftp" -> sftp [] b = "local" -> local [] b = "nextcloud" -> nextcloud

\* Whether backend b answered in the build with inputs f.
UpIn(f, b) == CASE b = "sftp" -> f.sftpUp [] b = "local" -> f.localUp
                [] b = "nextcloud" -> f.ncUp

\* The url prefix of the items of backend b in variant v.
PrefixOf(v, b) == CASE b = "sftp" -> MediaPrefix
                    [] b = "local" -> LocalPrefix
                    [] b = "nextcloud" -> IF v = "part0" THEN DavRoot ELSE NextcloudPrefix

\* Whether url belongs to backend b, and the file name it then decodes to.
FromBackend(v, b, url) == IsPrefix(PrefixOf(v, b), url)
DecodedName(v, b, url) == decodeURIComponent(Drop(url, Len(PrefixOf(v, b))))

\* Whether s ends with suffix.
EndsWith(s, suffix) ==
    Len(suffix) <= Len(s) /\ SubSeq(s, Len(s) - Len(suffix) + 1, Len(s)) = suffix

\* Whether name ends, whatever the case of its letters, with an extension of
\* the allow-list.
HasMediaExtension(name) ==
    \E ext \in MediaExtensions : EndsWith(toLowerCase(name), ext)

\* The entries of dir whose name has an allow-listed extension after a
\* non-empty stem.
MediaEntries(dir) ==
    { i \in 1..Len(dir) :
        \E ext \in MediaExtensions :
            EndsWith(toLowerCase(dir[i].name), ext) /\ Len(dir[i].name) > Len(ext) }

\* Whether the catalog media holds an item for the file name of backend b.
Listed(v, b, media, name) ==
    \E k \in 1..Len(media) :
        FromBackend(v, b, media[k].url) /\ DecodedName(v, b, media[k].url) = name

-----------------------------------------------------------------------------
\* C3: whatever the backend and the listing, every item of the catalog that a
\* build returns belongs to a file whose name ends, case-insensitively, with
\* one of .png .jpg .jpeg .gif .webp .mp4 .avi .mov.
C3_OnlyMediaExtensions ==
    op.kind = "gallery" =>
        \A k \in 1..Len(op.media) :
            \E b \in BackendsOf(variant) :
                /\ FromBackend(variant, b, op.media[k].url)
                /\ HasMediaExtension(DecodedName(variant, b, op.media[k].url))

\* C3's case: every backend answered, each holds a file outside the
\* allow-list or one inside it, and the build kept one and dropped another.
C3_Witness ==
    /\ op.kind = "gallery"
    /\ hasNextcloud(variant)
    /\ op.in.sftpUp /\ op.in.localUp /\ op.in.ncUp
    /\ \E b \in BackendsOf(variant) :
          \E i \in 1..Len(DirOf(b)) : ~HasMediaExtension(DirOf(b)[i].name)
    /\ Entries = MaxEntries
    /\ Len(op.media) = MaxEntries - 1

\* C4: when one configured backend fails entirely during a build, the build
\* does not raise, the result holds the items of every backend that answered,
\* and the failing backend contributes none.
C4_FailureIsolated ==
    (/\ op.kind = "gallery"
     /\ Cardinality({b \in BackendsOf(variant) : ~UpIn(op.in, b)}) = 1) =>
        /\ op.status = 200
        /\ \A b \in BackendsOf(variant) :
              IF UpIn(op.in, b)
              THEN \A i \in MediaEntries(DirOf(b)) :
                       Listed(variant, b, op.media, DirOf(b)[i].name)
              ELSE \A k \in 1..Len(op.media) :
                       ~FromBackend(variant, b, op.media[k].url)

\* C5: in the sequence a build returns, of two items that both have a valid
\* date the earlier-dated one never stands before the later-dated one.
C5_DatedItemsDescending ==
    op.kind = "gallery" =>
        \A i, j \in 1..Len(op.media) :
            (/\ i < j
             /\ op.media[i].uploadDate # UnknownDate
             /\ op.media[j].uploadDate # UnknownDate)
            => op.media[i].uploadDate >= op.media[j].uploadDate

\* C6: for every item of a catalog, percent-decoding what follows the
\* backend's prefix in its url gives exactly the name of a file of that
\* backend.
C6_UrlDecodesToName ==
    op.kind = "gallery" =>
        \A k \in 1..Len(op.media) :
            \E b \in BackendsOf(variant) :
                /\ FromBackend(variant, b, op.media[k].url)
                /\ Has(DirOf(b), DecodedName(variant, b, op.media[k].url))

\* C6's case: a catalog with items of two backends whose names needed
\* escaping.
C6_Witness ==
    /\ op.kind = "gallery"
    /\ \E j, k \in 1..Len(op.media) :
          /\ j # k
          /\ ~FromBackend(variant, "sftp", op.media[j].url)
          /\ FromBackend(variant, "sftp", op.media[k].url)
          /\ \E i \in 1..Len(op.media[j].url) : op.media[j].url[i] = "%"
          /\ \E i \in 1..Len(op.media[k].url) : op.media[k].url[i] = "%"

-----------------------------------------------------------------------------
(* Vocabulary of the claims about uploads and folder management.           *)

\* Whether the last step was (the answer to) an upload, create-folder or
\* delete-folder request.
IsManageOp == op.kind \in {"upload", "create-folder", "delete-folder"}

\* Whether that step left the directories and the calls under way as they
\* were.
NothingChanged ==
    /\ local = op.before.local
    /\ sftp = op.before.sftp
    /\ pending = op.before.pending

\* The size limit the configuration asks for, in bytes.
ConfiguredLimit ==
    (IF env.UPLOAD_LIMIT_MB = 0 THEN DefaultLimitMB ELSE env.UPLOAD_LIMIT_MB) * MB

\* C1: an upload, create-folder or delete-folder request from an address
\* other than the configured allowed address is answered with 403.
C1_DeniedGets403 ==
    (IsManageOp /\ op.ip # env.ALLOWED_IP) => op.status = 403

\* C2: when the caller of an upload, create-folder or delete-folder request
\* is not the allowed address, nothing is written: no file reaches the multer
\* directory or the SFTP server, no folder is created or removed, and no
\* file-system call is started.
C2_DeniedHasNoEffect ==
    (IsManageOp /\ op.ip # env.ALLOWED_IP) => NothingChanged

\* C9: an allowed caller's create-folder request that names an existing
\* folder is answered with 400 and leaves the local directory as it was.
C9_ExistingFolderIs400 ==
    (/\ op.kind = "create-folder"
     /\ op.ip = env.ALLOWED_IP
     /\ pathJoin(op.folderName) = "inside"
     /\ op.existed
     /\ op.status # NoResponse) =>
        /\ op.status = 400
        /\ local = op.before.local

\* C10: an upload whose file is larger than the configured limit
\* (UPLOAD_LIMIT_MB megabytes, 700 when unset) is not answered with success,
\* and neither the local directory nor the SFTP server holds anything it did
\* not hold before.
C10_OversizeRejected ==
    (/\ op.kind = "upload"
     /\ op.file # NoFile
     /\ op.file.size > ConfiguredLimit) =>
        /\ op.status >= 400
        /\ local = op.before.local
        /\ sftp = op.before.sftp

-----------------------------------------------------------------------------
(* Vocabulary of the claims about streaming.                               *)

\* Whether the last step answered GET /local/<filename>, in a variant that
\* has the route, for a stored file and a header "bytes=<s>-<e>" with both
\* numbers given.
IsSpanRequest ==
    /\ op.kind = "get-local"
    /\ hasLocalRoute(variant)
    /\ Has(local, op.filename)
    /\ op.range # NoRange
    /\ op.range.first # <<>> /\ op.range.last # <<>>

\* The numbers of that request, and the file and its size.
SpanStart == op.range.first[1]
SpanEnd == op.range.last[1]
Requested == Entry(local, op.filename)

\* C7: a request for the bytes s to e of a local file of N bytes, with
\* 0 <= s <= e < N, is answered with 206, Content-Range "bytes s-e/N",
\* Accept-Ranges "bytes", Content-Length e-s+1 and exactly the bytes s..e.
C7_ValidRangeIs206 ==
    (IsSpanRequest /\ SpanStart <= SpanEnd /\ SpanEnd < Requested.size) =>
        /\ op.status = 206
        /\ "contentRange" \in DOMAIN op.headers
        /\ op.headers.contentRange = <<SpanStart, SpanEnd, Requested.size>>
        /\ "acceptRanges" \in DOMAIN op.headers
        /\ op.headers.acceptRanges = "bytes"
        /\ "contentLength" \in DOMAIN op.headers
        /\ op.headers.contentLength = SpanEnd - SpanStart + 1
        /\ op.body = [i \in 1..(SpanEnd - SpanStart + 1) |->
                          byte(Requested, SpanStart + i - 1)]

\* C7's case: the route handler itself (the file's name starts with a dot)
\* has answered a span that lies strictly inside the largest file.
C7_Witness ==
    /\ IsSpanRequest
    /\ op.filename = Dotfile
    /\ Requested.size = MaxSize
    /\ 0 < SpanStart /\ SpanStart <= SpanEnd /\ SpanEnd < MaxSize - 1
    /\ op.status = 206
    /\ Len(op.body) = SpanEnd - SpanStart + 1

\* C8: a request for the bytes s to e of a file of N bytes with s > e,
\* s >= N or e >= N is answered with 416.
C8_BadRangeIs416 ==
    (/\ IsSpanRequest
     /\ (SpanStart > SpanEnd \/ SpanStart >= Requested.size
                             \/ SpanEnd >= Requested.size)) =>
        op.status = 416

-----------------------------------------------------------------------------
\* Whether the last step was (the answer to) a request to a route that has
\* ipRestrict in its chain.
IsGatedOp == IsManageOp /\ (op.kind = "upload" => uploadGated(variant))

\* C12: ipRestrict lets a request through only when its client address is
\* present and equal to the allowed address; in particular a request without
\* a client address is answered 403 whatever the configuration.
C12_FailsClosed ==
    (IsGatedOp /\ op.status # 403) =>
        (op.ip # "none" /\ op.ip = env.ALLOWED_IP)

\* Whether the last step answered an allowed caller's request that lacks its
\* required field: no file part for an upload, no or an empty folderName for
\* create-folder and delete-folder.
LacksField ==
    /\ IsManageOp
    /\ op.ip # "none" /\ op.ip = env.ALLOWED_IP
    /\ IF op.kind = "upload" THEN op.file = NoFile
                             ELSE op.folderName \in {<<>>, Undefined}

\* C17: an allowed caller's upload, create-folder or delete-folder request
\* that lacks its required field is answered 400 and changes nothing.
C17_MissingFieldIs400 ==
    LacksField => (op.status = 400 /\ NothingChanged)

\* C18: whatever folderName a create-folder or delete-folder request gives,
\* a folder is created or removed only strictly inside the local directory:
\* a request answered with success named a path below it, and everything
\* outside the named folder is as it was.
C18_StaysInsideRoot ==
    (op.kind \in {"create-folder", "delete-folder"} /\ op.status = 200) =>
        /\ pathJoin(op.folderName) = "inside"
        /\ \A i \in 1..Len(op.before.local) :
              op.before.local[i].name # op.folderName
                  => \E j \in 1..Len(local) : local[j] = op.before.local[i]

\* C13: an operation that has opened an SFTP session has closed it (called
\* sftp.end) by the time it is over, also when the call after the connection
\* failed.  Stated for the upload, which opens a session in app_2.
C13_SessionClosed ==
    (op.kind = "upload" /\ op.opened) => op.closed

-----------------------------------------------------------------------------
(* Vocabulary of the claims about requests for urls.                       *)

\* The backend the prefix of url names (/local, /media, /nextcloud), if any.
RoutedTo(url) ==
    CASE IsPrefix(LocalPrefix, url)     -> "local"
      [] IsPrefix(MediaPrefix, url)     -> "sftp"
      [] IsPrefix(NextcloudPrefix, url) -> "nextcloud"
      [] OTHER                          -> "none"

\* The file name in a url of one of the three prefixes.
RoutedName(url) == DecodedName("app_2", RoutedTo(url), url)

\* A catalog build in which every backend answers.
AllUp == [sftpUp |-> TRUE, localUp |-> TRUE, ncUp |-> TRUE, rootFirst |-> FALSE,
          statFails |-> "none", endFails |-> FALSE]

\* Whether the last step answered a request for a url of the catalog that
\* a build would return now, and the backend and entry that url belongs to.
IsCatalogUrl ==
    /\ op.kind = "get"
    /\ \E k \in 1..Len(buildCatalog(variant, AllUp)) :
          buildCatalog(variant, AllUp)[k].url = op.url
Owner == CHOOSE b \in BackendsOf(variant) :
             /\ FromBackend(variant, b, op.url)
             /\ Has(DirOf(b), DecodedName(variant, b, op.url))
OwnerEntry == Entry(DirOf(Owner), DecodedName(variant, Owner, op.url))

\* C14: a request under /local, /media or /nextcloud for a file that the
\* backend of that prefix does not hold, while the backend answers, gets 404.
C14_MissingFileIs404 ==
    (/\ op.kind = "get"
     /\ op.outcome = "ok"
     /\ RoutedTo(op.url) # "none"
     /\ ~Has(DirOf(RoutedTo(op.url)), RoutedName(op.url))) =>
        op.status = 404

\* C15: a request that a route takes to a remote backend (SFTP, Nextcloud)
\* whose connection fails is answered 500.
C15_ConnectionFailureIs500 ==
    (op.kind = "get" /\ op.outcome = "connectFails") => op.status = 500

\* C16: a request for a url of the catalog, while the file is there and its
\* backend answers, is answered with the content of that file from the
\* backend that owns the item.
C16_CatalogUrlServed ==
    (IsCatalogUrl /\ op.outcome = "ok") =>
        /\ op.status = 200
        /\ op.body = createReadStream(OwnerEntry, 0, OwnerEntry.size - 1)

-----------------------------------------------------------------------------
(* Vocabulary of the claims about faults during a catalog build.            *)

\* The items of the catalog media that belong to the file name of backend b.
ItemsOf(v, b, media, name) ==
    { k \in 1..Len(media) :
        FromBackend(v, b, media[k].url) /\ DecodedName(v, b, media[k].url) = name }

\* Whether every backend answered in the build with inputs f.
EveryBackendUp(f) == f.sftpUp /\ f.localUp /\ f.ncUp

\* The name of the entry whose stat threw in the last build: the first entry
\* of that listing that passes the filter.
FailingName ==
    LET dir == DirOf(op.in.statFails)
    IN  dir[Min(MediaEntries(dir))].name

\* C11: when the stat of one entry throws during a build in which every
\* backend answers, the build still returns an item for every media entry of
\* every backend, and the item of the failing entry has size 0 and the
\* unknown date.
C11_StatFailureContained ==
    (/\ op.kind = "gallery"
     /\ op.in.statFails # "none"
     /\ EveryBackendUp(op.in) /\ ~op.in.endFails) =>
        /\ \A b \in BackendsOf(variant) :
              \A i \in MediaEntries(DirOf(b)) :
                  Listed(variant, b, op.media, DirOf(b)[i].name)
        /\ \A k \in ItemsOf(variant, op.in.statFails, op.media, FailingName) :
              op.media[k].size = 0 /\ op.media[k].uploadDate = UnknownDate

\* C19: every gallery request is answered with the rendered page, whichever
\* backends fail during the build and even when closing the SFTP session
\* throws.
C19_GalleryAlwaysRenders ==
    op.kind = "gallery" => op.status = 200

\* C20: a build in which every backend answers returns exactly one item for
\* every file that is in a backend directory and has an allow-listed
\* extension, and no item for anything else.
C20_ExactlyTheMediaFiles ==
    (op.kind = "gallery" /\ op.status = 200 /\ EveryBackendUp(op.in)
     /\ op.in.statFails = "none") =>
        /\ \A b \in BackendsOf(variant) :
              \A i \in MediaEntries(DirOf(b)) :
                  Cardinality(ItemsOf(variant, b, op.media, DirOf(b)[i].name)) = 1
        /\ \A k \in 1..Len(op.media) :
              \E b \in BackendsOf(variant) :
                  \E i \in MediaEntries(DirOf(b)) :
                      k \in ItemsOf(variant, b, op.media, DirOf(b)[i].name)

-----------------------------------------------------------------------------
\* C21: every item of every catalog has a size and an uploadDate that is a
\* valid date or the 'Unknown Date' sentinel, whatever modification time the
\* backend reported.
C21_DateValidOrUnknown ==
    op.kind = "gallery" =>
        \A k \in 1..Len(op.media) :
            /\ op.media[k].uploadDate \in Dates \cup {UnknownDate}
            /\ op.media[k].size \in Nat

\* A rendered catalog with an item of a file whose modification time is no
\* date, and an item with a valid date.
C21_Witness ==
    /\ op.kind = "gallery" /\ op.status = 200
    /\ \E i \in MediaEntries(sftp) :
          /\ sftp[i].mtime = InvalidTime
          /\ \E k \in ItemsOf(variant, "sftp", op.media, sftp[i].name) :
                op.media[k].uploadDate = UnknownDate
    /\ \E k \in 1..Len(op.media) : op.media[k].uploadDate \in Dates

-----------------------------------------------------------------------------
(* Vocabulary of the claims about what an upload stores.                   *)

\* Whether the last step answered an upload of a file by the allowed caller
\* with success.
UploadSucceeded ==
    /\ op.kind = "upload" /\ op.status = 200
    /\ op.ip # "none" /\ op.ip = env.ALLOWED_IP
    /\ op.file # NoFile

\* The name under which that upload left its file in the local directory:
\* the random name multer chose, that name with an extension, or the name
\* the file had at the client.
StoredName ==
    LET tmp == CHOOSE t \in TmpNames : ~Has(op.before.local, t)
    IN  CASE variant = "app_2"   -> op.file.originalname
          [] variant = "part2_2" -> tmp \o <<".">> \o mimeExtension(op.file.originalname)
          [] OTHER               -> tmp

\* Whether dir holds a file called name with the content of upload f.
Holds(dir, name, f) ==
    \E i \in 1..Len(dir) :
        /\ dir[i].name = name /\ dir[i].kind = "file"
        /\ dir[i].size = f.size /\ dir[i].tag = f.tag

\* The files of dir called name.
FilesCalled(dir, name) ==
    { i \in 1..Len(dir) : dir[i].name = name /\ dir[i].kind = "file" }

\* The backends an upload writes to.
Destinations(v) == IF v = "app_2" THEN {"local", "sftp"} ELSE {"local"}

\* C24: when an upload of a file by the allowed caller is answered with
\* success, the local directory holds the content, and so does the SFTP
\* directory in the variant that uploads to it.
C24_SuccessMeansStored ==
    UploadSucceeded =>
        /\ Holds(local, StoredName, op.file)
        /\ ("sftp" \in Destinations(variant) =>
                Holds(sftp, op.file.originalname, op.file))

\* An upload answered with success that wrote to both destinations.
C24_Witness ==
    /\ UploadSucceeded
    /\ variant = "app_2"
    /\ op.sftpOutcome = "ok"
    /\ Holds(sftp, op.file.originalname, op.file)
    /\ ~Holds(op.before.sftp, op.file.originalname, op.file)

\* C25: after two successful uploads in a row of files with the same name,
\* every destination holds exactly one file of that name, with the content
\* of the second.
C25_LastWriteWins ==
    (UploadSucceeded /\ op.prev # NoFile
     /\ op.prev.originalname = op.file.originalname) =>
        \A b \in Destinations(variant) :
            /\ Cardinality(FilesCalled(DirOf(b), op.file.originalname)) = 1
            /\ Holds(DirOf(b), op.file.originalname, op.file)

\* C29: after an upload of a file with an allow-listed extension by the
\* allowed caller is answered with success, a catalog build in which every
\* backend answers has an item for the stored file.
C29_UploadIsListed ==
    (UploadSucceeded /\ HasMediaExtension(op.file.originalname)) =>
        Listed(variant, "local", buildCatalog(variant, AllUp), StoredName)

-----------------------------------------------------------------------------
\* C30: of two create-folder requests of the allowed caller for the same new
\* folder that are in flight together, in an application that tests
\* fs.existsSync, neither is answered 500 (one is answered 200, the other
\* 400).
C30_RaceNever500 ==
    (/\ op.kind = "create-folder"
     /\ checksExists(variant)
     /\ op.ip # "none" /\ op.ip = env.ALLOWED_IP
     /\ pathJoin(op.folderName) = "inside"
     /\ op.raced /\ ~op.existed
     /\ op.status # NoResponse) =>
        op.status \in {200, 400}

-----------------------------------------------------------------------------
\* C27: a catalog build leaves the local, the SFTP and the Nextcloud
\* directory as they were, whether every backend answered or not.
C27_BuildChangesNothing ==
    [][op'.kind = "gallery" => UNCHANGED <<local, sftp, nextcloud>>]_vars

\* A build over directories that hold files the filter drops, and one in
\* which a backend did not answer.
C27_Witness ==
    /\ op.kind = "gallery"
    /\ Entries = MaxEntries
    /\ \E i \in 1..Len(local) : ~isMedia(local[i].name)
    /\ ~op.in.sftpUp

-----------------------------------------------------------------------------
\* Whether the last step asked, without a Range header, a mount or route of
\* the variant for a file its backend holds, and the backend answered.  Files
\* whose name starts with a dot, which express.static does not serve, are
\* left out.
IsWholeFileRequest ==
    /\ op.kind = "get"
    /\ op.outcome = "ok"
    /\ \/ RoutedTo(op.url) = "local"
       \/ contactsRemote(variant, op.url)
    /\ Has(DirOf(RoutedTo(op.url)), RoutedName(op.url))
    /\ RoutedName(op.url)[1] # "."

\* C26: a request without a Range header for a file that exists is answered
\* 200 with a Content-Length of the size of the file and the Content-Type
\* of the extension of its name (application/octet-stream for an extension
\* that has none).
C26_WholeFileHeaders ==
    IsWholeFileRequest =>
        /\ op.status = 200
        /\ "contentLength" \in DOMAIN op.headers
        /\ op.headers.contentLength
              = Entry(DirOf(RoutedTo(op.url)), RoutedName(op.url)).size
        /\ op.headers.contentType = mimeLookup(RoutedName(op.url))

\* C28: every 206 answer to GET /local/<filename> names a span with
\* 0 <= start <= end < size of the file, and a Content-Length of at least 1.
C28_SpanInsideFile ==
    (op.kind = "get-local" /\ op.status = 206) =>
        /\ 0 <= op.headers.contentRange[1]
        /\ op.headers.contentRange[1] <= op.headers.contentRange[2]
        /\ op.headers.contentRange[2] < Requested.size
        /\ op.headers.contentLength >= 1

-----------------------------------------------------------------------------
\* C22: when the read of the file fails after the response has started, the
\* response is aborted: the request is not left open, the body is not ended
\* as if it were complete, and the process goes on.
C22_FailedReadAborts ==
    (op.kind = "get-local-lost" /\ op.started) => op.ending = "aborted"

-----------------------------------------------------------------------------
\* The place of step x in the steps of the last request (0: not among them).
StepAt(x) ==
    IF \E i \in 1..Len(op.steps) : op.steps[i] = x
    THEN CHOOSE i \in 1..Len(op.steps) : op.steps[i] = x
    ELSE 0

\* C23: while a file is streamed from the SFTP server, sftp.end is not
\* called on the session before the last byte has been delivered to the
\* client.
C23_SessionOutlivesTransfer ==
    (op.kind = "get" /\ StepAt("pipe") > 0) =>
        /\ StepAt("delivered") > 0
        /\ StepAt("end") > StepAt("delivered")

=============================================================================
